---- MODULE Spec2Model ----
(***************************************************************************)
(* halo2-range-proof: the range/commitment circuit (src/src/range.rs), the *)
(* proof pipeline that drives it (src/src/main.rs) and the InRangeCircuit  *)
(* variant checked with the mock prover (src/src/proof-range.rs).          *)
(*                                                                         *)
(* A field element is modelled as a natural number.  An Option<Fp> or a    *)
(* Value<Fp> is a sequence of length at most one: <<>> is None / unknown,  *)
(* <<v>> is Some(v) / known(v).  The instance column is a sequence whose   *)
(* element i+1 is public slot i.                                           *)
(***************************************************************************)
EXTENDS Naturals, Sequences, FiniteSets, TLC

VARIABLES
    program,    \* which binary runs: "main" (main.rs + range.rs) or "proof-range"
    inputs,     \* "literal": the constants written in main; "any": a caller's values
    circuit,    \* the witness circuit handed to the prover
    instance,   \* the instance (public input) column
    pc,         \* the statement of main that runs next
    syn,        \* the statement of synthesize / assign that runs next (1-based)
    cells,      \* advice cells assigned in the current synthesis: name -> Value
    copies,     \* copy constraints of the current synthesis: <<cell, slot or cell>>
    lts,        \* less-than gadget invocations of the current synthesis
    effects,    \* side effects of the current synthesis, in order
    completed,  \* pipeline steps of main that returned Ok, in order
    vk,         \* verification key derived
    pk,         \* proving key derived
    proof,      \* "none" | "valid" | "invalid"
    verdict,    \* "none" | "accept" | "reject"
    panic,      \* "" or what aborted the process
    reported    \* the success line was printed

vars == <<program, inputs, circuit, instance, pc, syn, cells, copies, lts,
          effects, completed, vk, pk, proof, verdict, panic, reported>>

----------------------------------------------------------------------------
(* Constants of the programs *)

\* range.rs:13 has N_BITS = 64; the model scales the width down so that
\* 2^N_BITS is a representable number.  Only "operand < 2^N_BITS" is used.
N_BITS == 7

LOWER == 18
UPPER == 65
SECRET == 27

None == <<>>
Some(v) == <<v>>
Unknown == <<>>
Known(v) == <<v>>

\* Operands that fit in N_BITS bits
Fits(v) == v < 2^N_BITS

\* Field elements the inputs are drawn from: below the range, the two
\* boundaries, inside the range, above the range, and one element that needs
\* more than N_BITS bits.
Values == {10, LOWER, SECRET, UPPER, 70, 2^N_BITS}

\* The commitment gadget's digest of one field element: deterministic and
\* injective, with digests far outside the N_BITS range (a stand-in for the
\* Poseidon permutation, which is an external capability).
Digest(v) == 2^(N_BITS + 2) + 3 * v + 1

\* main.rs:22  let commitment = pallas::Base::from(secret);
MainCommitment(secret) == secret

\* proof-range.rs:172-174  poseidon.update([number]); poseidon.squeeze()
MockCommitment(number) == Digest(number)

\* RangeCommitCircuit::default(): secret None, bounds zero
DefaultCircuit == [secret |-> None, lower |-> 0, upper |-> 0]

\* main.rs:30-34 / proof-range.rs:166-170
LiteralCircuit == [secret |-> Some(SECRET), lower |-> LOWER, upper |-> UPPER]

AnyCircuits == [secret : {None} \cup {Some(v) : v \in Values},
                lower : Values, upper : Values]

----------------------------------------------------------------------------
(* The constraint-system backend, as the circuits use it *)

\* main's statements that synthesize a circuit
SynthesisPhases == {"keygen_vk", "keygen_pk", "create_proof"}

\* Key generation synthesizes the empty circuit (main.rs:25-27), proving the
\* witness circuit (main.rs:45-53).
SynCircuit == IF pc \in {"keygen_vk", "keygen_pk"} THEN DefaultCircuit ELSE circuit

\* The backend evaluates cell values only when a witness is collected
\* (create_proof, MockProver::run); key generation assigns no values.
EvaluatesWitness(phase) == phase \in {"create_proof", "mock_run"}

\* Mutant: the expect is hoisted out of the value closure and runs in every phase.
SecretExpectEager(phase) == TRUE

\* range.rs:67: the expect sits inside the closure handed to assign_advice,
\* so it runs only when the backend evaluates the cell's value.
SecretClosureRuns(phase) == EvaluatesWitness(phase)

\* Mutant: an absent secret silently becomes zero.
SecretOrDefault(secret) == IF secret = None THEN Some(0) ELSE secret

\* range.rs:67  self.secret.expect("secret witness missing"): None is the panic
SecretExpect(secret) == secret

\* Public slot `slot` as the backend's query_instance returns it
QueryInstance(slot) ==
    IF EvaluatesWitness(pc) THEN Known(instance[slot + 1]) ELSE Unknown

\* PoseidonChip::hash over a single cell
PoseidonHash(value) == IF value = Unknown THEN Unknown ELSE Known(Digest(value[1]))

\* LtChip::assign(a, b): the gadget constrains a < b for operands of at most
\* N_BITS bits; outside that width its result is unspecified, so either
\* outcome may be produced.  Without witness values nothing is checked.
LtOutcomes(va, vb) ==
    IF va = Unknown \/ vb = Unknown THEN {TRUE}
    ELSE IF Fits(va[1]) /\ Fits(vb[1]) THEN {va[1] < vb[1]}
    ELSE BOOLEAN

\* A copy constraint <<cell, "instance", slot>> ties a cell to a public slot
\* (constrain_instance, assign_advice_from_instance); <<cell, "cell", other>>
\* ties it to another advice cell (copy_advice).
CopyHolds(c) ==
    IF c[2] = "instance"
    THEN cells[c[1]] = Known(instance[c[3] + 1])
    ELSE cells[c[1]] = cells[c[3]]

\* Every gate and copy constraint of the current assignment holds.
Satisfied ==
    /\ \A c \in copies : CopyHolds(c)
    /\ \A i \in 1..Len(lts) : lts[i].sat

----------------------------------------------------------------------------
(* RangeCommitCircuit::synthesize, range.rs:51-126 *)

\* Mutant: the bounds are loaded before the commitment is computed.
SynthesizeStepsBoundsFirst ==
    <<"load secret", "load lower", "load upper", "Poseidon hash",
      "constrain instance", "lower < secret", "secret < upper">>

\* The statements of synthesize in program order
SynthesizeSteps ==
    <<"load secret", "Poseidon hash", "constrain instance", "load lower",
      "load upper", "lower < secret", "secret < upper">>

InSynthesize(label) ==
    /\ program = "main"
    /\ pc \in SynthesisPhases
    /\ syn <= Len(SynthesizeSteps)
    /\ SynthesizeSteps[syn] = label

\* range.rs:60-70
SynLoadSecret ==
    /\ InSynthesize("load secret")
    /\ LET s == SecretExpect(SynCircuit.secret) IN
       IF SecretClosureRuns(pc) /\ s = None
       THEN /\ panic' = "secret witness missing"
            /\ pc' = "panic"
            /\ UNCHANGED <<syn, cells, effects>>
       ELSE /\ cells' = cells @@ ("secret" :> IF EvaluatesWitness(pc) THEN s ELSE Unknown)
            /\ effects' = Append(effects, "secret")
            /\ syn' = syn + 1
            /\ UNCHANGED <<pc, panic>>
    /\ UNCHANGED <<program, inputs, circuit, instance, copies, lts, completed,
                   vk, pk, proof, verdict, reported>>

\* range.rs:75-79
SynPoseidonHash ==
    /\ InSynthesize("Poseidon hash")
    /\ cells' = cells @@ ("commitment" :> PoseidonHash(cells["secret"]))
    /\ effects' = Append(effects, "commitment")
    /\ syn' = syn + 1
    /\ UNCHANGED <<program, inputs, circuit, instance, pc, copies, lts, completed,
                   vk, pk, proof, verdict, panic, reported>>

\* range.rs:81
SynConstrainInstance ==
    /\ InSynthesize("constrain instance")
    /\ copies' = copies \cup {<<"commitment", "instance", 0>>}
    /\ effects' = Append(effects, "bind commitment")
    /\ syn' = syn + 1
    /\ UNCHANGED <<program, inputs, circuit, instance, pc, cells, lts, completed,
                   vk, pk, proof, verdict, panic, reported>>

\* Mutant: the lower bound is re-entered as a free witness.
LoadLowerFreeWitness ==
    [value |-> IF EvaluatesWitness(pc) THEN Known(SynCircuit.lower) ELSE Unknown,
     copies |-> {}]

\* range.rs:92-96  assign_advice_from_instance(cfg.instance, 1, cfg.lt.advice, 0)
LoadLower == [value |-> QueryInstance(1), copies |-> {<<"lower", "instance", 1>>}]

\* range.rs:103-107  assign_advice_from_instance(cfg.instance, 2, cfg.lt.advice, 1)
LoadUpper == [value |-> QueryInstance(2), copies |-> {<<"upper", "instance", 2>>}]

\* range.rs:89-98
SynLoadLower ==
    /\ InSynthesize("load lower")
    /\ cells' = cells @@ ("lower" :> LoadLower.value)
    /\ copies' = copies \cup LoadLower.copies
    /\ effects' = Append(effects, "lower")
    /\ syn' = syn + 1
    /\ UNCHANGED <<program, inputs, circuit, instance, pc, lts, completed,
                   vk, pk, proof, verdict, panic, reported>>

\* range.rs:100-109
SynLoadUpper ==
    /\ InSynthesize("load upper")
    /\ cells' = cells @@ ("upper" :> LoadUpper.value)
    /\ copies' = copies \cup LoadUpper.copies
    /\ effects' = Append(effects, "upper")
    /\ syn' = syn + 1
    /\ UNCHANGED <<program, inputs, circuit, instance, pc, lts, completed,
                   vk, pk, proof, verdict, panic, reported>>

\* Mutant: the first comparison is made against the wrong cell.
LtLowerOperandsWrong == <<"lower", "upper">>

\* range.rs:112-116  lt_chip.assign(.., lower_cell, secret_cell)
LtLowerOperands == <<"lower", "secret">>

\* range.rs:119-123  lt_chip.assign(.., secret_cell, upper_cell)
LtUpperOperands == <<"secret", "upper">>

LtAssign(ops, label) ==
    /\ \E sat \in LtOutcomes(cells[ops[1]], cells[ops[2]]) :
         lts' = Append(lts, [a |-> ops[1], b |-> ops[2],
                             va |-> cells[ops[1]], vb |-> cells[ops[2]],
                             sat |-> sat])
    /\ effects' = Append(effects, label)
    /\ syn' = syn + 1
    /\ UNCHANGED <<program, inputs, circuit, instance, pc, cells, copies, completed,
                   vk, pk, proof, verdict, panic, reported>>

\* range.rs:112-116
SynLtLower ==
    /\ InSynthesize("lower < secret")
    /\ LtAssign(LtLowerOperands, "lower < secret")

\* range.rs:119-123
SynLtUpper ==
    /\ InSynthesize("secret < upper")
    /\ LtAssign(LtUpperOperands, "secret < upper")

\* synthesize has returned Ok(())
SynthesizeDone == syn = Len(SynthesizeSteps) + 1

----------------------------------------------------------------------------
(* main, main.rs:12-69 *)

NoCells == [n \in {} |-> Unknown]

\* a fresh constraint system for the next synthesis
NewSynthesis ==
    /\ syn' = 1
    /\ cells' = NoCells
    /\ copies' = {}
    /\ lts' = <<>>
    /\ effects' = <<>>

\* Instance vectors a caller may hand to prove and verify for circuit c
AnyInstances(c) ==
    {<<c0, lo, up>> : c0 \in Values \cup {Digest(v) : v \in Values},
                      lo \in Values, up \in Values}

\* main.rs:37-41  vec![vec![commitment, from(lower), from(upper)]]
MainInstance(c) == <<MainCommitment(c.secret[1]), c.lower, c.upper>>

\* main.rs:26  keygen_vk(&params, &empty).unwrap()
KeygenVk ==
    /\ program = "main" /\ pc = "keygen_vk" /\ SynthesizeDone
    /\ vk' = TRUE
    /\ completed' = Append(completed, "keygen_vk")
    /\ pc' = "keygen_pk"
    /\ NewSynthesis
    /\ UNCHANGED <<program, inputs, circuit, instance, pk, proof, verdict, panic, reported>>

\* main.rs:27  keygen_pk(&params, vk, &empty).unwrap()
KeygenPk ==
    /\ program = "main" /\ pc = "keygen_pk" /\ SynthesizeDone
    /\ pk' = TRUE
    /\ completed' = Append(completed, "keygen_pk")
    /\ pc' = "witness"
    /\ NewSynthesis
    /\ UNCHANGED <<program, inputs, circuit, instance, vk, proof, verdict, panic, reported>>

\* main.rs:30-41: the witness circuit and the instance column.  With the
\* literal inputs the instance is the one main writes; otherwise it is any
\* vector a caller of the circuit supplies.
BuildWitness ==
    /\ program = "main" /\ pc = "witness"
    /\ instance' \in (IF inputs = "literal" THEN {MainInstance(circuit)}
                      ELSE AnyInstances(circuit))
    /\ pc' = "create_proof"
    /\ UNCHANGED <<program, inputs, circuit, syn, cells, copies, lts, effects,
                   completed, vk, pk, proof, verdict, panic, reported>>

\* What create_proof returns for an assignment: a proof of a satisfied
\* assignment verifies; an unsatisfied one either fails at prove or yields
\* a proof that cannot verify.
ProveOutcomes(sat) == IF sat THEN {"valid"} ELSE {"error", "invalid"}

\* main.rs:44-54  create_proof(..).unwrap(); transcript.finalize()
CreateProof ==
    /\ program = "main" /\ pc = "create_proof" /\ SynthesizeDone
    /\ \E r \in ProveOutcomes(Satisfied) :
         IF r = "error"
         THEN /\ pc' = "panic"
              /\ panic' = "create_proof"
              /\ UNCHANGED <<proof, completed>>
         ELSE /\ proof' = r
              /\ completed' = Append(completed, "create_proof")
              /\ pc' = "verify_proof"
              /\ UNCHANGED panic
    /\ UNCHANGED <<program, inputs, circuit, instance, syn, cells, copies, lts,
                   effects, vk, pk, verdict, reported>>

\* verify_proof over the proof and the same instance column
VerifyResult == IF proof = "valid" THEN "accept" ELSE "reject"

\* Mutant: the verification result is dropped instead of unwrapped.
AfterVerifyIgnored(v) == "report"

\* main.rs:66  .unwrap() on verify_proof's result
AfterVerify(v) == IF v = "accept" THEN "report" ELSE "panic"

\* main.rs:57-66
VerifyProof ==
    /\ program = "main" /\ pc = "verify_proof"
    /\ verdict' = VerifyResult
    /\ pc' = AfterVerify(VerifyResult)
    /\ IF AfterVerify(VerifyResult) = "panic"
       THEN panic' = "verify_proof" /\ UNCHANGED completed
       ELSE completed' = Append(completed, "verify_proof") /\ UNCHANGED panic
    /\ UNCHANGED <<program, inputs, circuit, instance, syn, cells, copies, lts,
                   effects, vk, pk, proof, reported>>

\* main.rs:68  println!("range proof verified!")
Report ==
    /\ program = "main" /\ pc = "report"
    /\ reported' = TRUE
    /\ pc' = "done"
    /\ UNCHANGED <<program, inputs, circuit, instance, syn, cells, copies, lts,
                   effects, completed, vk, pk, proof, verdict, panic>>

----------------------------------------------------------------------------
(* InRangeCircuit and its main, proof-range.rs *)

\* proof-range.rs:107  Value::known(F::ONE)
FLAG_ONE == 1

\* proof-range.rs:162-170
LiteralInRange == [number |-> Known(SECRET), lower |-> Known(LOWER), upper |-> Known(UPPER)]

AnyInRange == [number : {Known(v) : v \in Values},
               lower : {Known(v) : v \in Values},
               upper : {Known(v) : v \in Values}]

\* The statements of InRangeChip::assign in program order, proof-range.rs:88-126
AssignSteps ==
    <<"load number", "load lower bound", "load upper bound", "dummy in-range flag",
      "hash number", "constrain instance", "expose flag">>

InAssign(label) ==
    /\ program = "proof-range"
    /\ pc = "mock_run"
    /\ syn <= Len(AssignSteps)
    /\ AssignSteps[syn] = label

\* region.assign_advice(.., column, offset, || value): a free witness cell
AssignAdvice(name, value) ==
    /\ cells' = cells @@ (name :> value)
    /\ effects' = Append(effects, name)
    /\ syn' = syn + 1
    /\ UNCHANGED <<program, inputs, circuit, instance, pc, copies, lts, completed,
                   vk, pk, proof, verdict, panic, reported>>

\* proof-range.rs:88-91
AssignNumber == InAssign("load number") /\ AssignAdvice("number", circuit.number)

\* proof-range.rs:93-96
AssignLower == InAssign("load lower bound") /\ AssignAdvice("lower", circuit.lower)

\* proof-range.rs:98-101
AssignUpper == InAssign("load upper bound") /\ AssignAdvice("upper", circuit.upper)

\* proof-range.rs:104-109
AssignFlag == InAssign("dummy in-range flag") /\ AssignAdvice("flag", Known(FLAG_ONE))

\* Mutant: the commitment is taken over the lower bound's cell.
HashInputLower == "lower"

\* proof-range.rs:114  poseidon.hash(.., [number.clone()])
HashInput == "number"

\* proof-range.rs:112-114
AssignHash ==
    /\ InAssign("hash number")
    /\ AssignAdvice("commitment", PoseidonHash(cells[HashInput]))

\* proof-range.rs:117
AssignConstrainInstance ==
    /\ InAssign("constrain instance")
    /\ copies' = copies \cup {<<"commitment", "instance", 0>>}
    /\ effects' = Append(effects, "bind commitment")
    /\ syn' = syn + 1
    /\ UNCHANGED <<program, inputs, circuit, instance, pc, cells, lts, completed,
                   vk, pk, proof, verdict, panic, reported>>

\* proof-range.rs:120-126  flag.copy_advice(.., advice[2], 1)
AssignExposeFlag ==
    /\ InAssign("expose flag")
    /\ cells' = cells @@ ("flag_copy" :> cells["flag"])
    /\ copies' = copies \cup {<<"flag_copy", "cell", "flag">>}
    /\ effects' = Append(effects, "flag_copy")
    /\ syn' = syn + 1
    /\ UNCHANGED <<program, inputs, circuit, instance, pc, lts, completed,
                   vk, pk, proof, verdict, panic, reported>>

\* Public inputs a caller may hand to the mock prover
AnyPublicInputs == {<<c0>> : c0 \in Values \cup {Digest(v) : v \in Values}}

\* proof-range.rs:172-176: the commitment and the public inputs
MockInputs ==
    /\ program = "proof-range" /\ pc = "inputs"
    /\ instance' \in (IF inputs = "literal"
                      THEN {<<MockCommitment(circuit.number[1])>>}
                      ELSE AnyPublicInputs)
    /\ pc' = "mock_run"
    /\ UNCHANGED <<program, inputs, circuit, syn, cells, copies, lts, effects,
                   completed, vk, pk, proof, verdict, panic, reported>>

\* proof-range.rs:178  MockProver::run(k, &circuit, public_inputs).unwrap()
MockRun ==
    /\ program = "proof-range" /\ pc = "mock_run"
    /\ syn = Len(AssignSteps) + 1
    /\ completed' = Append(completed, "mock_run")
    /\ pc' = "mock_verify"
    /\ UNCHANGED <<program, inputs, circuit, instance, syn, cells, copies, lts,
                   effects, vk, pk, proof, verdict, panic, reported>>

\* proof-range.rs:179  assert_eq!(prover.verify(), Ok(()))
MockVerify ==
    /\ program = "proof-range" /\ pc = "mock_verify"
    /\ IF Satisfied
       THEN /\ verdict' = "accept"
            /\ completed' = Append(completed, "mock_verify")
            /\ pc' = "done"
            /\ UNCHANGED panic
       ELSE /\ verdict' = "reject"
            /\ pc' = "panic"
            /\ panic' = "assert_eq"
            /\ UNCHANGED completed
    /\ UNCHANGED <<program, inputs, circuit, instance, syn, cells, copies, lts,
                   effects, vk, pk, proof, reported>>

----------------------------------------------------------------------------
(* The specification *)

Init ==
    /\ program \in {"main", "proof-range"}
    /\ inputs \in {"literal", "any"}
    /\ circuit \in (IF program = "main"
                    THEN (IF inputs = "literal" THEN {LiteralCircuit} ELSE AnyCircuits)
                    ELSE (IF inputs = "literal" THEN {LiteralInRange} ELSE AnyInRange))
    /\ instance = <<>>
    /\ pc = (IF program = "main" THEN "keygen_vk" ELSE "inputs")
    /\ syn = 1
    /\ cells = NoCells
    /\ copies = {}
    /\ lts = <<>>
    /\ effects = <<>>
    /\ completed = <<>>
    /\ vk = FALSE
    /\ pk = FALSE
    /\ proof = "none"
    /\ verdict = "none"
    /\ panic = ""
    /\ reported = FALSE

Next ==
    \/ SynLoadSecret
    \/ SynPoseidonHash
    \/ SynConstrainInstance
    \/ SynLoadLower
    \/ SynLoadUpper
    \/ SynLtLower
    \/ SynLtUpper
    \/ KeygenVk
    \/ KeygenPk
    \/ BuildWitness
    \/ CreateProof
    \/ VerifyProof
    \/ Report
    \/ MockInputs
    \/ AssignNumber
    \/ AssignLower
    \/ AssignUpper
    \/ AssignFlag
    \/ AssignHash
    \/ AssignConstrainInstance
    \/ AssignExposeFlag
    \/ MockRun
    \/ MockVerify

Spec == Init /\ [][Next]_vars

----------------------------------------------------------------------------
(* Properties *)

IsPrefix(s, t) == Len(s) <= Len(t) /\ SubSeq(t, 1, Len(s)) = s

KeygenPhases == {"keygen_vk", "keygen_pk"}

\* main runs with the constants written in main.rs
LiteralMain == program = "main" /\ inputs = "literal"

\* the witness circuit's synthesis has returned Ok in proving mode
ProvingAssigned ==
    /\ program = "main"
    /\ pc \in {"create_proof", "verify_proof", "report", "done", "panic"}
    /\ panic # "secret witness missing"
    /\ syn = Len(SynthesizeSteps) + 1

PipelineOrder == <<"keygen_vk", "keygen_pk", "create_proof", "verify_proof">>

\* C1: with lower=18, upper=65, secret=27 the pipeline of main ends with
\* verify accepting, and instance slot 0 holds the digest of 27.
C1_ValidRangeRoundTrip ==
    LiteralMain =>
        /\ instance # <<>> => instance[1] = Digest(SECRET)
        /\ pc \in {"done", "panic"} => verdict = "accept" /\ reported

\* C2: for operands that fit in N_BITS bits, an assignment satisfies the
\* circuit (and a run is accepted) only if lower < secret < upper, both strict,
\* lower and upper being instance slots 1 and 2.
C2_StrictRangeSoundness ==
    ( /\ ProvingAssigned
      /\ Satisfied \/ verdict = "accept"
      /\ Fits(circuit.secret[1]) /\ Fits(instance[2]) /\ Fits(instance[3]) )
    => (instance[2] < circuit.secret[1] /\ circuit.secret[1] < instance[3])

\* C2 witness: a run in range is accepted.
C2_Witness ==
    /\ program = "main" /\ verdict = "accept"
    /\ circuit.secret = Some(SECRET)
    /\ instance = <<Digest(SECRET), LOWER, UPPER>>

\* C3: no slot of the instance column main builds holds the raw secret; the
\* vector is [digest(secret), lower, upper].
C3_InstanceNeverCarriesSecret ==
    (LiteralMain /\ instance # <<>>) =>
        /\ \A i \in 1..Len(instance) : instance[i] # circuit.secret[1]
        /\ instance = <<Digest(circuit.secret[1]), circuit.lower, circuit.upper>>

\* C4: in proving mode the lower and upper operand cells are loaded from
\* instance slots 1 and 2 and copy-constrained to them, whatever the circuit's
\* own lower and upper fields hold.
C4_BoundsFromInstance ==
    (program = "main" /\ pc \notin KeygenPhases) =>
        /\ "lower" \in DOMAIN cells =>
             /\ cells["lower"] = Known(instance[2])
             /\ <<"lower", "instance", 1>> \in copies
        /\ "upper" \in DOMAIN cells =>
             /\ cells["upper"] = Known(instance[3])
             /\ <<"upper", "instance", 2>> \in copies

\* C4 witness: a satisfied proving assignment whose circuit fields differ
\* from the instance's bounds.
C4_Witness ==
    /\ ProvingAssigned /\ Satisfied
    /\ Fits(circuit.secret[1]) /\ Fits(instance[2]) /\ Fits(instance[3])
    /\ circuit.lower # instance[2]
    /\ circuit.upper # instance[3]

\* C5: key generation synthesizes the witness-free circuit without error,
\* assigns no value, reads no secret, and yields both keys.
C5_KeygenSucceeds ==
    program = "main" =>
        /\ pc \in KeygenPhases =>
             /\ panic = ""
             /\ SynCircuit.secret = None
             /\ \A n \in DOMAIN cells : cells[n] = Unknown
        /\ pc = "keygen_pk" => vk
        /\ pc \notin KeygenPhases => vk /\ pk

\* C5 witness: both keys derived from the empty circuit.
C5_Witness ==
    /\ program = "main" /\ pc = "witness"
    /\ vk /\ pk
    /\ completed = <<"keygen_vk", "keygen_pk">>

\* C6: proving with the secret absent aborts at the secret cell with the
\* usage error: no other side effect, no proof, no verification, and the
\* outcome is neither a prove failure nor a rejection.
C6_AbsentSecretFailsFast ==
    (program = "main" /\ circuit.secret = None) =>
        /\ proof = "none"
        /\ verdict = "none"
        /\ pc \notin {"verify_proof", "report", "done"}
        /\ pc = "create_proof" => syn = 1 /\ cells = NoCells
        /\ pc = "panic" => panic = "secret witness missing" /\ cells = NoCells
        /\ ~reported

\* C6 witness: the usage error has been raised in proving mode.
C6_Witness ==
    /\ program = "main" /\ circuit.secret = None
    /\ pc = "panic" /\ panic = "secret witness missing"
    /\ completed = <<"keygen_vk", "keygen_pk">>

\* C7 (as claimed): in proving mode both bounds are loaded before the
\* commitment is computed and bound.
C7_BoundsBeforeCommitment ==
    (program = "main" /\ pc = "create_proof") =>
        IsPrefix(effects, <<"secret", "lower", "upper", "commitment",
                            "bind commitment", "lower < secret", "secret < upper">>)

\* C7 (amended): the side effects are, in order: the secret is assigned, the
\* commitment is computed and bound to instance slot 0, lower and upper are
\* loaded from the instance, then lower < secret and secret < upper.
C7_SideEffectOrder ==
    program = "main" =>
        IsPrefix(effects, <<"secret", "commitment", "bind commitment", "lower",
                            "upper", "lower < secret", "secret < upper">>)

\* C7 witness: a complete proving-mode synthesis.
C7_Witness ==
    /\ program = "main" /\ pc = "create_proof"
    /\ Len(effects) = 7

\* C8: every operand of a less-than comparison invoked with witness values
\* fits in N_BITS bits.
C8_OperandsFitBeforeComparison ==
    program = "main" =>
        \A i \in 1..Len(lts) :
            (lts[i].va # Unknown /\ lts[i].vb # Unknown) =>
                Fits(lts[i].va[1]) /\ Fits(lts[i].vb[1])

\* C9: success is reported only after keygen_vk, keygen_pk, create_proof and
\* verify_proof each returned Ok, in that order; a failure ends the run at
\* the failing step, without the report and with no step after it.
C9_ReportOnlyAfterAllSteps ==
    program = "main" =>
        /\ IsPrefix(completed, PipelineOrder)
        /\ reported =>
             /\ completed = PipelineOrder
             /\ proof = "valid" /\ verdict = "accept" /\ panic = ""
        /\ pc = "panic" =>
             /\ ~reported
             /\ panic # ""
             /\ Len(completed) < Len(PipelineOrder)
             /\ panic = "create_proof" => completed = SubSeq(PipelineOrder, 1, 2)
             /\ panic = "verify_proof" => completed = SubSeq(PipelineOrder, 1, 3)
             /\ ~ENABLED Next

\* C9 witness: the success report after all four steps.
C9_Witness ==
    /\ program = "main" /\ reported /\ pc = "done"
    /\ completed = PipelineOrder
    /\ Fits(circuit.secret[1]) /\ Fits(instance[2]) /\ Fits(instance[3])

\* C10: the mock prover's verdict on InRangeCircuit is Ok exactly when
\* instance slot 0 is the digest of number, whatever lower and upper are; the
\* flag is the constant 1 and the commitment is the only cell tied to a
\* public input.
C10_VerdictIgnoresBounds ==
    (program = "proof-range" /\ pc \in {"done", "panic"}) =>
        /\ verdict = "accept" <=> instance[1] = Digest(circuit.number[1])
        /\ cells["flag"] = Known(FLAG_ONE)
        /\ {c \in copies : c[2] = "instance"} = {<<"commitment", "instance", 0>>}

\* C10 witness: a number outside (lower, upper) verifies.
C10_Witness ==
    /\ program = "proof-range" /\ pc = "done" /\ verdict = "accept"
    /\ circuit.number = Known(10)
    /\ circuit.lower = Known(LOWER)
    /\ circuit.upper = Known(UPPER)

====
